---- MODULE Spec2Model ----
(***************************************************************************)
(* Taint-range map of ddtrace/appsec/_iast/_taint_tracking (TaintRange.cpp) *)
(* as a state machine: the host's string objects (address, lazily cached   *)
(* hash), the TaintedObject heap with its manual reference counts, the     *)
(* identity-keyed TaintRangeMap and the calls get_ranges, set_ranges,      *)
(* are_all_text_all_ranges, get_tainted_object and set_tainted_object;      *)
(* the TaintRange pool with get_hash, the comparisons, the shifts and      *)
(* get_range_by_hash; and get_ranges / set_ranges run by two threads.      *)
(***************************************************************************)
EXTENDS Integers, Sequences, FiniteSets, TLC

\* ---------------------------------------------------------------- bounds
NumIds == 2         \* addresses at which the host's strings live
NumHashes == 1      \* distinct hash values of strings
MaxObj == 2         \* TaintedObject slots of the allocator
MaxLen == 2         \* longest range list handed to set_ranges
MaxRc == 2          \* cap on a reference count (leaked increments are unbounded)
MaxParams == 2      \* longest parameter_list of are_all_text_all_ranges
StartBits == 3      \* width of RANGE_START, a signed integer type
UintBits == 2       \* width of uint, narrower than RANGE_START
MaxSpan == 1        \* longest span (length) of a range the host builds
NumSources == 2     \* distinct Source objects
NumThreads == 2     \* threads that share one map

\* ------------------------------------------------------ program constants
NullPtr == 0        \* `not str`, nullptr
NotComputed == -1   \* PyASCIIObject.hash before the hash is computed
NoContext == 0      \* context_id() of "no active context"

Ids == 1..NumIds
\* Hash values, as numbers of the map's key type (uintptr_t), lie outside the
\* addresses in use: a hash that happens to equal an address is not modelled.
HashVals == (NumIds + 1)..(NumIds + NumHashes)
\* The address of a value that is no string (an int, a list).
NonText == NumIds + NumHashes + 1
Args == Ids \cup {NonText}
Keys == Ids \cup HashVals \cup {NonText}
Objs == 1..MaxObj

\* Range lists: a TaintRangePtr is named by a number; the lists are
\* <<1>>, <<2, 1>>, <<3, 2, 1>>, ... and the empty list.
RangeList(n) == [i \in 1..n |-> n + 1 - i]
RangeLists == {RangeList(n) : n \in 0..MaxLen}
ParamLists == UNION {[1..k -> Args] : k \in 0..MaxParams}

NoEntry == [first |-> NotComputed, second |-> NullPtr]
Dead == [alive |-> FALSE, rc |-> 0, ranges |-> <<>>]

Ops == {"get_ranges", "set_ranges", "are_all_text_all_ranges",
        "get_tainted_object", "set_tainted_object"}

VARIABLES
    str_hash,    \* str_hash[a]: ((PyASCIIObject*)str)->hash of the string at address a
    tx_map,      \* the TaintRangeMap: key -> (first = cached hash, second = TaintedObjectPtr)
    heap,        \* TaintedObject slots: alive, rc, ranges
    ctx_map,     \* initializer->get_tainting_map() is not null
    ctx_id,      \* initializer->context_id()
    ret,         \* the last observed call: its arguments and what it returned
    watch,       \* the operations whose calls are observed in ret
    pool,        \* TaintRange slots of allocate_taint_range: live, start, length, source
    rcall,       \* the last call of the range layer: its arguments and what it returned
    threads      \* per thread: the call it is in, its position and its locals

vars == <<str_hash, tx_map, heap, ctx_map, ctx_id, ret, watch, pool, rcall, threads>>

\* then: "returned" right after the call, "hashed" once the host has hashed
\* a string since.
NoCall == [op |-> "none", str |-> NullPtr, explicit |-> FALSE, ranges |-> <<>>,
           params |-> <<>>, tobj |-> NullPtr, out |-> "return",
           val |-> <<>>, all |-> <<>>, obj |-> NullPtr, new |-> NullPtr,
           then |-> "returned"]

Running == ret.out # "crash"

\* What ret becomes: the call when its operation is observed or it raised,
\* else nothing.
observed(call) == IF call.op \in watch \/ call.out = "error" THEN call ELSE NoCall

\* The process died (undefined behaviour that ended in a fault): no step
\* follows.
Crashed == [NoCall EXCEPT !.out = "crash"]

\* ------------------------------------------------- external collaborators
is_text(str) == str \in Ids

get_unique_id(str) == str

get_tainting_map == ctx_map

context_id == ctx_id

incref(h, o) == [h EXCEPT ![o].rc = @ + 1]

decref(h, o) == IF h[o].rc - 1 <= 0 THEN [h EXCEPT ![o] = Dead]
                ELSE [h EXCEPT ![o].rc = @ - 1]

allocate_ranges_into_taint_object(h, o, ranges) ==
    [h EXCEPT ![o] = [alive |-> TRUE, rc |-> 0, ranges |-> ranges]]

FreeObjs == {o \in Objs : ~heap[o].alive}

\* tx_map->empty()
empty == \A k \in Keys : tx_map[k] = NoEntry

\* tx_map->find(key) != tx_map->end()
found(key) == tx_map[key] # NoEntry

\* The explicit tx_map argument is the context's map when there is one.
Explicits == IF ctx_map THEN {FALSE} ELSE {FALSE, TRUE}

\* The map a call works on: the explicit tx_map argument, else the context's.
resolved(explicit) == explicit \/ get_tainting_map

\* Dereference of a TaintedObjectPtr for decref(): defined on a live object.
\* On a destroyed one it is undefined behaviour: the process dies, or the
\* write lands in released memory and nothing else is affected.
decref_outcomes(h, o) ==
    IF h[o].alive
    THEN {[crash |-> FALSE, heap |-> decref(h, o)]}
    ELSE {[crash |-> TRUE, heap |-> h], [crash |-> FALSE, heap |-> h]}

\* ------------------------------------------------------------ get_ranges
\* get_ranges without the comparison of line 87: a stale entry is served.
get_ranges_result_unvalidated(str, explicit) ==
    LET it == tx_map[get_unique_id(str)]
        nothing == [val |-> <<>>, out |-> "return", ub |-> FALSE]
    IN IF ~is_text(str) THEN nothing
       ELSE IF ~resolved(explicit) \/ empty THEN nothing
       ELSE IF ~found(get_unique_id(str)) THEN nothing
       ELSE [val |-> heap[it.second].ranges, out |-> "return",
             ub |-> ~heap[it.second].alive]

\* get_ranges raising on a missing map, as the other three calls do.
get_ranges_result_throwing(str, explicit) ==
    LET it == tx_map[get_unique_id(str)]
        nothing == [val |-> <<>>, out |-> "return", ub |-> FALSE]
    IN IF ~is_text(str) THEN nothing
       ELSE IF ~resolved(explicit) THEN [nothing EXCEPT !.out = "error"]
       ELSE IF empty THEN nothing
       ELSE IF ~found(get_unique_id(str)) THEN nothing
       ELSE IF str_hash[str] # it.first THEN nothing
       ELSE [val |-> heap[it.second].ranges, out |-> "return",
             ub |-> ~heap[it.second].alive]

\* val: the sequence returned; out: "return" (get_ranges has no throw);
\* ub: line 91 reads the ranges of a TaintedObject that was destroyed.
get_ranges_result(str, explicit) ==
    LET it == tx_map[get_unique_id(str)]
        nothing == [val |-> <<>>, out |-> "return", ub |-> FALSE]
    IN IF ~is_text(str) THEN nothing
       ELSE IF ~resolved(explicit) \/ empty THEN nothing
       ELSE IF ~found(get_unique_id(str)) THEN nothing
       ELSE IF str_hash[str] # it.first THEN nothing
       ELSE [val |-> heap[it.second].ranges, out |-> "return",
             ub |-> ~heap[it.second].alive]

get_ranges(str, explicit) ==
    /\ Running
    /\ LET r == get_ranges_result(str, explicit)
           call == [NoCall EXCEPT !.op = "get_ranges", !.str = str,
                                  !.explicit = explicit]
       IN \/ ret' = observed([call EXCEPT !.out = r.out, !.val = r.val])
          \/ r.ub /\ ret' = Crashed
    /\ UNCHANGED <<str_hash, tx_map, heap, ctx_map, ctx_id, watch, pool, rcall, threads>>

\* ------------------------------------------------------------ set_ranges
\* set_ranges returning silently on a missing map, as get_ranges does.
set_ranges_path_silent(str, ranges, explicit) ==
    IF ~is_text(str) \/ ranges = <<>> THEN "noop"
    ELSE IF ~explicit /\ ~get_tainting_map THEN "noop"
    ELSE IF context_id = NoContext THEN "noop"
    ELSE "store"

\* set_ranges without the test of the context id (lines 107-110).
set_ranges_path_any_context(str, ranges, explicit) ==
    IF ~is_text(str) \/ ranges = <<>> THEN "noop"
    ELSE IF ~explicit /\ ~get_tainting_map THEN "throw"
    ELSE "store"

\* The guards of set_ranges, in the order of the code.
set_ranges_path(str, ranges, explicit) ==
    IF ~is_text(str) \/ ranges = <<>> THEN "noop"
    ELSE IF ~explicit /\ ~get_tainting_map THEN "throw"
    ELSE IF context_id = NoContext THEN "noop"
    ELSE "store"

\* Lines 112-124 for a newly allocated object in slot new: the heap and the
\* map after the call, or a crash.
set_ranges_store(str, ranges, new) ==
    LET obj_id == get_unique_id(str)
        it == tx_map[obj_id]
        h1 == incref(allocate_ranges_into_taint_object(heap, new, ranges), new)
        entry == [first |-> str_hash[str], second |-> new]
    IN IF found(obj_id)
       THEN {[crash |-> d.crash, heap |-> d.heap,
              map |-> [tx_map EXCEPT ![obj_id] = entry]] :
                 d \in decref_outcomes(h1, it.second)}
       ELSE {[crash |-> FALSE, heap |-> h1,
              map |-> [tx_map EXCEPT ![obj_id] = entry]]}

set_ranges(str, ranges, explicit) ==
    /\ Running
    /\ LET path == set_ranges_path(str, ranges, explicit)
           call == [NoCall EXCEPT !.op = "set_ranges", !.str = str,
                                  !.ranges = ranges, !.explicit = explicit]
       IN CASE path = "noop" ->
                 /\ ret' = observed(call)
                 /\ UNCHANGED <<tx_map, heap>>
            [] path = "throw" ->
                 /\ ret' = observed([call EXCEPT !.out = "error"])
                 /\ UNCHANGED <<tx_map, heap>>
            [] OTHER ->
                 \E new \in FreeObjs :
                   \E s \in set_ranges_store(str, ranges, new) :
                      IF s.crash
                      THEN /\ ret' = Crashed
                           /\ UNCHANGED <<tx_map, heap>>
                      ELSE /\ ret' = observed([call EXCEPT !.new = new])
                           /\ tx_map' = s.map
                           /\ heap' = s.heap
    /\ UNCHANGED <<str_hash, ctx_map, ctx_id, watch, pool, rcall, threads>>

\* ----------------------------------------------- are_all_text_all_ranges
\* The loop of lines 141-149: all_ranges after the parameters in rest, for
\* the map pointer tm fetched at line 137 (TRUE when it is not null).
RECURSIVE parameter_ranges(_, _, _)
parameter_ranges(all_ranges, rest, tm) ==
    IF rest = <<>> THEN all_ranges
    ELSE LET param == Head(rest)
         IN parameter_ranges(IF is_text(param)
                             THEN all_ranges \o get_ranges_result(param, tm).val
                             ELSE all_ranges,
                             Tail(rest), tm)

\* are_all_text_all_ranges with the candidate's ranges put first.
are_all_text_all_ranges_result_candidate_first(candidate_text, parameter_list) ==
    IF ~is_text(candidate_text)
    THEN [all |-> <<>>, val |-> <<>>, ub |-> FALSE]
    ELSE LET tm == get_tainting_map
             candidate_text_ranges == get_ranges_result(candidate_text, tm).val
         IN [all |-> parameter_ranges(candidate_text_ranges, parameter_list, tm),
             val |-> candidate_text_ranges,
             ub |-> \E x \in {candidate_text}
                         \cup {parameter_list[i] : i \in DOMAIN parameter_list} :
                       get_ranges_result(x, tm).ub]

are_all_text_all_ranges_result(candidate_text, parameter_list) ==
    IF ~is_text(candidate_text)
    THEN [all |-> <<>>, val |-> <<>>, ub |-> FALSE]
    ELSE LET tm == get_tainting_map
             candidate_text_ranges == get_ranges_result(candidate_text, tm).val
         IN [all |-> parameter_ranges(<<>>, parameter_list, tm)
                        \o candidate_text_ranges,
             val |-> candidate_text_ranges,
             ub |-> \E x \in {candidate_text}
                         \cup {parameter_list[i] : i \in DOMAIN parameter_list} :
                       get_ranges_result(x, tm).ub]

are_all_text_all_ranges(candidate_text, parameter_list) ==
    /\ Running
    /\ LET r == are_all_text_all_ranges_result(candidate_text, parameter_list)
           call == [NoCall EXCEPT !.op = "are_all_text_all_ranges",
                                  !.str = candidate_text,
                                  !.params = parameter_list]
       IN \/ ret' = observed([call EXCEPT !.all = r.all, !.val = r.val])
          \/ r.ub /\ ret' = Crashed
    /\ UNCHANGED <<str_hash, tx_map, heap, ctx_map, ctx_id, watch, pool, rcall, threads>>

\* ---------------------------------------------------- get_tainted_object
\* ((PyASCIIObject*)str)->hash at line 190. get_tainted_object does not test
\* is_text: on a value that is no string the field is whatever that object
\* holds at the offset.
hash_field(str) == IF is_text(str) THEN {str_hash[str]}
                   ELSE {NotComputed} \cup HashVals

\* The guards of lines 175-186.
get_tainted_object_path(str, explicit) ==
    IF str = NullPtr THEN "null"
    ELSE IF ~explicit /\ ~get_tainting_map THEN "throw"
    ELSE IF empty THEN "null"
    ELSE "lookup"

\* Lines 188-195: the pointer returned and the heap afterwards, or a crash.
\* When find() returns end(), line 191 dereferences end(): the process dies,
\* or the comparison happens to read an equal hash and nullptr is returned.
get_tainted_object_lookup(str) ==
    LET it == tx_map[get_unique_id(str)]
    IN IF ~found(get_unique_id(str))
       THEN {[crash |-> TRUE, heap |-> heap, obj |-> NullPtr],
             [crash |-> FALSE, heap |-> heap, obj |-> NullPtr]}
       ELSE UNION {
              IF hash # it.first
              THEN {[crash |-> d.crash, heap |-> d.heap, obj |-> NullPtr] :
                       d \in decref_outcomes(heap, it.second)}
              ELSE {[crash |-> FALSE, heap |-> heap, obj |-> it.second]}
              : hash \in hash_field(str)}

get_tainted_object(str, explicit) ==
    /\ Running
    /\ LET path == get_tainted_object_path(str, explicit)
           call == [NoCall EXCEPT !.op = "get_tainted_object", !.str = str,
                                  !.explicit = explicit]
       IN CASE path = "null" ->
                 /\ ret' = observed(call)
                 /\ UNCHANGED heap
            [] path = "throw" ->
                 /\ ret' = observed([call EXCEPT !.out = "error"])
                 /\ UNCHANGED heap
            [] OTHER ->
                 \E g \in get_tainted_object_lookup(str) :
                    IF g.crash
                    THEN /\ ret' = Crashed
                         /\ UNCHANGED heap
                    ELSE /\ ret' = observed([call EXCEPT !.obj = g.obj])
                         /\ heap' = g.heap
    /\ UNCHANGED <<str_hash, tx_map, ctx_map, ctx_id, watch, pool, rcall, threads>>

\* ---------------------------------------------------- set_tainted_object
\* The guards of lines 201-209.
set_tainted_object_path(str, explicit) ==
    IF str = NullPtr \/ ~is_text(str) THEN "noop"
    ELSE IF ~explicit /\ ~get_tainting_map THEN "throw"
    ELSE "store"

\* Lines 222-236 with the hash of lines 213-221: the heap and the map after
\* the call, or a crash.
set_tainted_object_store(str, tainted_object, hash) ==
    LET obj_id == get_unique_id(str)
        it == tx_map[obj_id]
    IN IF found(obj_id)
       THEN IF it.second # tainted_object
            THEN {[crash |-> d.crash,
                   heap |-> incref(d.heap, tainted_object),
                   map |-> [tx_map EXCEPT ![obj_id].second = tainted_object]] :
                      d \in decref_outcomes(heap, it.second)}
            ELSE {[crash |-> FALSE, heap |-> heap, map |-> tx_map]}
       ELSE {[crash |-> FALSE,
              heap |-> incref(heap, tainted_object),
              \* insert() under the key `hash`: no effect when the key exists
              map |-> IF found(hash) THEN tx_map
                      ELSE [tx_map EXCEPT ![hash] =
                               [first |-> hash, second |-> tainted_object]]]}

set_tainted_object(str, tainted_object, explicit) ==
    /\ Running
    /\ heap[tainted_object].alive
    /\ heap[tainted_object].rc < MaxRc
    /\ LET path == set_tainted_object_path(str, explicit)
           call == [NoCall EXCEPT !.op = "set_tainted_object", !.str = str,
                                  !.tobj = tainted_object,
                                  !.explicit = explicit]
       IN CASE path = "noop" ->
                 /\ ret' = observed(call)
                 /\ UNCHANGED <<tx_map, heap, str_hash>>
            [] path = "throw" ->
                 /\ ret' = observed([call EXCEPT !.out = "error"])
                 /\ UNCHANGED <<tx_map, heap, str_hash>>
            [] OTHER ->
                 LET force == str_hash[str] = NotComputed
                 IN \E hash \in (IF force THEN HashVals ELSE {str_hash[str]}) :
                    \* PyObject_Hash caches the hash in the string; the
                    \* Py_DECREF of line 218 then treats the hash value as an
                    \* object pointer: the process dies, or the write lands
                    \* in memory nothing else reads.
                    \/ /\ force
                       /\ ret' = Crashed
                       /\ UNCHANGED <<tx_map, heap, str_hash>>
                    \/ \E s \in set_tainted_object_store(str, tainted_object, hash) :
                         IF s.crash
                         THEN /\ ret' = Crashed
                              /\ UNCHANGED <<tx_map, heap, str_hash>>
                         ELSE /\ ret' = observed([call EXCEPT !.new = tainted_object])
                              /\ str_hash' = [str_hash EXCEPT ![str] = hash]
                              /\ tx_map' = s.map
                              /\ heap' = s.heap
    /\ UNCHANGED <<ctx_map, ctx_id, watch, pool, rcall, threads>>

\* ------------------------------------------------------- the range layer
\* TaintRangePtr values: two ranges the host holds and the results of one
\* call.
RangePtrs == 1..(2 + MaxLen)

\* RANGE_START is a signed integer type.
StartMin == -(2^(StartBits - 1))
StartMax == 2^(StartBits - 1) - 1
Starts == StartMin..StartMax
Lengths == 0..MaxSpan
\* A Source is named by a number; 0 is the empty Source left by reset().
Sources == 1..NumSources
\* The values of size_t passed as range_hash: those of uint and one above.
SizeArgs == 0..(2^UintBits)
PtrLists == UNION {[1..k -> RangePtrs] : k \in 0..MaxLen}

\* A released TaintRange, as reset() leaves it.
FreeRange == [live |-> FALSE, start |-> 0, length |-> 0, source |-> 0]

\* made: the ranges the call allocated.
NoRangeCall == [op |-> "none", range |-> NullPtr, other |-> NullPtr,
                offset |-> 0, hash |-> 0, has |-> FALSE, ranges |-> <<>>,
                out |-> NullPtr, outs |-> <<>>, made |-> {}, is |-> FALSE]

LiveRanges == {p \in RangePtrs : pool[p].live}

\* initializer->allocate_taint_range: the slot the allocator hands out.
allocate_taint_range(pl) ==
    CHOOSE p \in RangePtrs :
       /\ ~pl[p].live
       /\ \A q \in RangePtrs : ~pl[q].live => p <= q

\* Conversion of an integer to uint.
to_uint(x) == x % (2^UintBits)

\* hash<uint>()(x): the argument converted to uint; std::hash of an integer
\* is the value itself.
std_hash_uint(x) == to_uint(x)

\* Source::get_hash(): distinct Sources have distinct hashes.
Source_get_hash(source) == source

\* a ^ b on uint.
RECURSIVE xor(_, _, _)
xor(a, b, bits) ==
    IF bits = 0 THEN 0
    ELSE ((a + b) % 2) + 2 * xor(a \div 2, b \div 2, bits - 1)

\* TaintRange::get_hash of the range record r.
get_hash(r) ==
    LET hstart == std_hash_uint(r.start)
        hlength == std_hash_uint(r.length)
        hsource == std_hash_uint(Source_get_hash(r.source))
    IN xor(xor(hstart, hlength, UintBits), hsource, UintBits)

\* __eq__ and __ne__ of TaintRange_.
TaintRange_eq(self, other) ==
    IF other = NullPtr THEN FALSE
    ELSE pool[self].start = pool[other].start
         /\ pool[self].length = pool[other].length

TaintRange_ne(self, other) ==
    IF other = NullPtr THEN TRUE
    ELSE pool[self].start # pool[other].start
         \/ pool[self].length # pool[other].length

\* start + offset in RANGE_START when the sum is out of the type: signed
\* overflow. A build wraps the sum or traps.
wrap(x) == ((x - StartMin) % (2^StartBits)) + StartMin

\* A shift that moves the range the other way.
api_shift_taint_range_result_backwards(source_taint_range, offset) ==
    LET sum == source_taint_range.start - offset
    IN [overflow |-> sum \notin Starts,
        range |-> [live |-> TRUE, start |-> wrap(sum),
                   length |-> source_taint_range.length,
                   source |-> source_taint_range.source]]

\* The range api_shift_taint_range allocates for the range record
\* source_taint_range; overflow: the sum is out of RANGE_START.
api_shift_taint_range_result(source_taint_range, offset) ==
    LET sum == source_taint_range.start + offset
    IN [overflow |-> sum \notin Starts,
        range |-> [live |-> TRUE, start |-> wrap(sum),
                   length |-> source_taint_range.length,
                   source |-> source_taint_range.source]]

api_shift_taint_range(source_taint_range, offset) ==
    /\ Running
    /\ rcall.made = {}
    /\ pool[source_taint_range].live
    /\ LET r == api_shift_taint_range_result(pool[source_taint_range], offset)
           tptr == allocate_taint_range(pool)
       IN \/ /\ pool' = [pool EXCEPT ![tptr] = r.range]
             /\ rcall' = [NoRangeCall EXCEPT !.op = "shift_taint_range",
                                             !.range = source_taint_range,
                                             !.offset = offset,
                                             !.out = tptr, !.made = {tptr}]
             /\ UNCHANGED ret
          \/ /\ r.overflow
             /\ ret' = Crashed
             /\ UNCHANGED <<pool, rcall>>
    /\ UNCHANGED <<str_hash, tx_map, heap, ctx_map, ctx_id, watch, threads>>

\* The loop of lines 62-64 over rest, from the pool pl and the new_ranges
\* built so far.
RECURSIVE shift_loop(_, _, _, _)
shift_loop(pl, new_ranges, rest, offset) ==
    IF rest = <<>>
    THEN [pool |-> pl, new_ranges |-> new_ranges, overflow |-> FALSE]
    ELSE LET r == api_shift_taint_range_result(pl[Head(rest)], offset)
             tptr == allocate_taint_range(pl)
             after == shift_loop([pl EXCEPT ![tptr] = r.range],
                                 Append(new_ranges, tptr), Tail(rest), offset)
         IN [after EXCEPT !.overflow = @ \/ r.overflow]

\* The loop putting each shifted range in front of those before it.
RECURSIVE shift_loop_front(_, _, _, _)
shift_loop_front(pl, new_ranges, rest, offset) ==
    IF rest = <<>>
    THEN [pool |-> pl, new_ranges |-> new_ranges, overflow |-> FALSE]
    ELSE LET r == api_shift_taint_range_result(pl[Head(rest)], offset)
             tptr == allocate_taint_range(pl)
             after == shift_loop_front([pl EXCEPT ![tptr] = r.range],
                                       <<tptr>> \o new_ranges, Tail(rest),
                                       offset)
         IN [after EXCEPT !.overflow = @ \/ r.overflow]

api_shift_taint_ranges_result_reversed(pl, source_taint_ranges, offset) ==
    shift_loop_front(pl, <<>>, source_taint_ranges, offset)

api_shift_taint_ranges_result(pl, source_taint_ranges, offset) ==
    shift_loop(pl, <<>>, source_taint_ranges, offset)

api_shift_taint_ranges(source_taint_ranges, offset) ==
    /\ Running
    /\ rcall.made = {}
    /\ \A i \in DOMAIN source_taint_ranges : pool[source_taint_ranges[i]].live
    /\ LET r == api_shift_taint_ranges_result(pool, source_taint_ranges, offset)
       IN \/ /\ pool' = r.pool
             /\ rcall' = [NoRangeCall EXCEPT
                             !.op = "shift_taint_ranges",
                             !.ranges = source_taint_ranges,
                             !.offset = offset,
                             !.outs = r.new_ranges,
                             !.made = {r.new_ranges[i] : i \in DOMAIN r.new_ranges}]
             /\ UNCHANGED ret
          \/ /\ r.overflow
             /\ ret' = Crashed
             /\ UNCHANGED <<pool, rcall>>
    /\ UNCHANGED <<str_hash, tx_map, heap, ctx_map, ctx_id, watch, threads>>

\* The scan of lines 164-168 over rest.
RECURSIVE first_with_hash(_, _)
first_with_hash(range_hash, rest) ==
    IF rest = <<>> THEN NullPtr
    ELSE IF range_hash = get_hash(pool[Head(rest)]) THEN Head(rest)
    ELSE first_with_hash(range_hash, Tail(rest))

\* The scan returning the last range with the hash.
RECURSIVE last_with_hash(_, _)
last_with_hash(range_hash, rest) ==
    IF rest = <<>> THEN NullPtr
    ELSE IF range_hash = get_hash(pool[rest[Len(rest)]]) THEN rest[Len(rest)]
    ELSE last_with_hash(range_hash, SubSeq(rest, 1, Len(rest) - 1))

get_range_by_hash_result_last(range_hash, has, taint_ranges) ==
    IF ~has \/ taint_ranges = <<>> THEN NullPtr
    ELSE last_with_hash(range_hash, taint_ranges)

\* has: the optional taint_ranges holds a value.
get_range_by_hash_result(range_hash, has, taint_ranges) ==
    IF ~has \/ taint_ranges = <<>> THEN NullPtr
    ELSE first_with_hash(range_hash, taint_ranges)

get_range_by_hash(range_hash, has, taint_ranges) ==
    /\ Running
    /\ rcall.made = {}
    /\ \A i \in DOMAIN taint_ranges : pool[taint_ranges[i]].live
    /\ ~has => taint_ranges = <<>>
    /\ rcall' = [NoRangeCall EXCEPT
                    !.op = "get_range_by_hash", !.hash = range_hash,
                    !.has = has, !.ranges = taint_ranges,
                    !.out = get_range_by_hash_result(range_hash, has,
                                                     taint_ranges)]
    /\ UNCHANGED <<str_hash, tx_map, heap, ctx_map, ctx_id, ret, watch, pool,
                   threads>>

\* r.get_hash() / hash(r) from the host.
TaintRange_get_hash(self) ==
    /\ Running
    /\ rcall.made = {}
    /\ pool[self].live
    /\ rcall' = [NoRangeCall EXCEPT !.op = "get_hash", !.range = self,
                                    !.hash = get_hash(pool[self])]
    /\ UNCHANGED <<str_hash, tx_map, heap, ctx_map, ctx_id, ret, watch, pool,
                   threads>>

\* r == s and r != s from the host; s may be None.
TaintRange_compare(op, self, other) ==
    /\ Running
    /\ rcall.made = {}
    /\ pool[self].live
    /\ other # NullPtr => pool[other].live
    /\ rcall' = [NoRangeCall EXCEPT
                    !.op = op, !.range = self, !.other = other,
                    !.is = IF op = "__eq__" THEN TaintRange_eq(self, other)
                           ELSE TaintRange_ne(self, other)]
    /\ UNCHANGED <<str_hash, tx_map, heap, ctx_map, ctx_id, ret, watch, pool,
                   threads>>

\* The fake constructor taint_range(start, length, source) of the host: a
\* range with a non-negative start. The host holds at most two ranges.
taint_range(start, length, source) ==
    /\ Running
    /\ rcall.made = {}
    /\ Cardinality(LiveRanges) + MaxLen < Cardinality(RangePtrs)
    /\ pool' = [pool EXCEPT ![allocate_taint_range(pool)] =
                   [live |-> TRUE, start |-> start, length |-> length,
                    source |-> source]]
    /\ rcall' = NoRangeCall
    /\ UNCHANGED <<str_hash, tx_map, heap, ctx_map, ctx_id, ret, watch,
                   threads>>

\* The host drops its last reference to the results of the call before: it
\* releases them before its next call.
release_results ==
    /\ Running
    /\ rcall.made # {}
    /\ pool' = [p \in RangePtrs |->
                   IF p \in rcall.made THEN FreeRange ELSE pool[p]]
    /\ rcall' = NoRangeCall
    /\ UNCHANGED <<str_hash, tx_map, heap, ctx_map, ctx_id, ret, watch,
                   threads>>

\* The host drops its last reference to a range it holds.
release_range(p) ==
    /\ Running
    /\ rcall.made = {}
    /\ pool[p].live
    /\ pool' = [pool EXCEPT ![p] = FreeRange]
    /\ rcall' = NoRangeCall
    /\ UNCHANGED <<str_hash, tx_map, heap, ctx_map, ctx_id, ret, watch,
                   threads>>

NextRanges ==
    \/ \E start \in 0..StartMax, length \in Lengths, source \in Sources :
          taint_range(start, length, source)
    \/ \E p \in RangePtrs, offset \in Starts : api_shift_taint_range(p, offset)
    \/ \E ps \in PtrLists, offset \in Starts : api_shift_taint_ranges(ps, offset)
    \/ \E h \in SizeArgs, has \in BOOLEAN, ps \in PtrLists :
          get_range_by_hash(h, has, ps)
    \/ \E p \in RangePtrs : TaintRange_get_hash(p)
    \/ \E op \in {"__eq__", "__ne__"}, p \in RangePtrs,
          q \in RangePtrs \cup {NullPtr} : TaintRange_compare(op, p, q)
    \/ release_results
    \/ \E p \in RangePtrs : release_range(p)

\* ------------------------------------------------------------ the threads
\* get_ranges and set_ranges run by threads that share the context's map
\* with no lock: a thread takes one step of a call at a time (find,
\* allocate, incref, decref, replace or insert, compare, read ranges).
Threads == 1..NumThreads

\* it: the iterator of find() is not end(); new: new_tainted_object;
\* old: the object the thread decremented; val: the ranges returned.
Idle == [pc |-> "idle", op |-> "none", str |-> NullPtr, ranges |-> <<>>,
         it |-> FALSE, new |-> NullPtr, hash |-> NotComputed,
         old |-> NullPtr, val |-> <<>>]

\* it->second of the thread's iterator: the entry as it is now.
entry_of(t) == tx_map[get_unique_id(threads[t].str)]

thread_vars_unchanged ==
    UNCHANGED <<ctx_map, ctx_id, ret, watch, pool, rcall>>

\* Lines 97-110: the call goes on to line 112 when no guard returns or
\* throws.
call_set_ranges(t, str, ranges) ==
    /\ Running
    /\ threads[t].pc = "idle"
    /\ set_ranges_path(str, ranges, FALSE) = "store"
    /\ threads' = [threads EXCEPT ![t] =
                      [Idle EXCEPT !.pc = "set_ranges_find",
                                   !.op = "set_ranges", !.str = str,
                                   !.ranges = ranges]]
    /\ UNCHANGED <<str_hash, tx_map, heap>>
    /\ thread_vars_unchanged

\* Line 113: it = tx_map->find(obj_id).
set_ranges_find(t) ==
    /\ Running
    /\ threads[t].pc = "set_ranges_find"
    /\ threads' = [threads EXCEPT ![t].pc = "set_ranges_allocate",
                                  ![t].it = found(get_unique_id(threads[t].str))]
    /\ UNCHANGED <<str_hash, tx_map, heap>>
    /\ thread_vars_unchanged

\* Line 114: allocate_ranges_into_taint_object(ranges).
set_ranges_allocate(t) ==
    /\ Running
    /\ threads[t].pc = "set_ranges_allocate"
    /\ \E new \in FreeObjs :
          /\ heap' = allocate_ranges_into_taint_object(heap, new,
                                                       threads[t].ranges)
          /\ threads' = [threads EXCEPT ![t].pc = "set_ranges_incref",
                                        ![t].new = new]
    /\ UNCHANGED <<str_hash, tx_map>>
    /\ thread_vars_unchanged

\* Lines 116-118: the hash is read, new_tainted_object->incref(), and the
\* test of the iterator.
set_ranges_incref(t) ==
    /\ Running
    /\ threads[t].pc = "set_ranges_incref"
    /\ heap' = incref(heap, threads[t].new)
    /\ threads' = [threads EXCEPT
                      ![t].pc = IF threads[t].it THEN "set_ranges_decref"
                                ELSE "set_ranges_insert",
                      ![t].hash = str_hash[threads[t].str]]
    /\ UNCHANGED <<str_hash, tx_map>>
    /\ thread_vars_unchanged

\* Line 119: it->second.second->decref(), on the object the entry points to
\* now. On a destroyed object the thread faults or the write has no effect.
set_ranges_decref(t) ==
    /\ Running
    /\ threads[t].pc = "set_ranges_decref"
    /\ \E d \in decref_outcomes(heap, entry_of(t).second) :
          IF d.crash
          THEN /\ threads' = [threads EXCEPT ![t].pc = "fault"]
               /\ ret' = Crashed
               /\ UNCHANGED heap
          ELSE /\ threads' = [threads EXCEPT ![t].pc = "set_ranges_replace",
                                             ![t].old = entry_of(t).second]
               /\ heap' = d.heap
               /\ UNCHANGED ret
    /\ UNCHANGED <<str_hash, tx_map, ctx_map, ctx_id, watch, pool, rcall>>

\* Lines 120-121: it->second = pair{ hash, new_tainted_object }; return.
set_ranges_replace(t) ==
    /\ Running
    /\ threads[t].pc = "set_ranges_replace"
    /\ tx_map' = [tx_map EXCEPT ![get_unique_id(threads[t].str)] =
                     [first |-> threads[t].hash, second |-> threads[t].new]]
    /\ threads' = [threads EXCEPT ![t] = Idle]
    /\ UNCHANGED <<str_hash, heap>>
    /\ thread_vars_unchanged

\* Line 124: tx_map->insert({ obj_id, ... }), which leaves an entry that
\* another thread has inserted since the find as it is.
set_ranges_insert(t) ==
    /\ Running
    /\ threads[t].pc = "set_ranges_insert"
    /\ tx_map' = IF found(get_unique_id(threads[t].str)) THEN tx_map
                 ELSE [tx_map EXCEPT ![get_unique_id(threads[t].str)] =
                          [first |-> threads[t].hash,
                           second |-> threads[t].new]]
    /\ threads' = [threads EXCEPT ![t] = Idle]
    /\ UNCHANGED <<str_hash, heap>>
    /\ thread_vars_unchanged

\* Lines 71-80 and 82-85 of get_ranges: the guards and the find.
call_get_ranges(t, str) ==
    /\ Running
    /\ threads[t].pc = "idle"
    /\ is_text(str) /\ get_tainting_map /\ ~empty
    /\ threads' = [threads EXCEPT ![t] =
                      IF found(get_unique_id(str))
                      THEN [Idle EXCEPT !.pc = "get_ranges_compare",
                                        !.op = "get_ranges", !.str = str,
                                        !.it = TRUE]
                      ELSE [Idle EXCEPT !.op = "get_ranges", !.str = str]]
    /\ UNCHANGED <<str_hash, tx_map, heap>>
    /\ thread_vars_unchanged

\* Lines 87-89: the comparison of the hash with it->second.first.
get_ranges_compare(t) ==
    /\ Running
    /\ threads[t].pc = "get_ranges_compare"
    /\ threads' = [threads EXCEPT
                      ![t].pc = IF str_hash[threads[t].str] # entry_of(t).first
                                THEN "idle" ELSE "get_ranges_read"]
    /\ UNCHANGED <<str_hash, tx_map, heap>>
    /\ thread_vars_unchanged

\* Line 91: it->second.second->get_ranges(), on the object the entry points
\* to now. On a destroyed object the thread faults or reads what is left.
get_ranges_read(t) ==
    /\ Running
    /\ threads[t].pc = "get_ranges_read"
    /\ \/ /\ threads' = [threads EXCEPT
                            ![t].pc = "idle",
                            ![t].val = heap[entry_of(t).second].ranges]
          /\ UNCHANGED ret
       \/ /\ ~heap[entry_of(t).second].alive
          /\ threads' = [threads EXCEPT ![t].pc = "fault"]
          /\ ret' = Crashed
    /\ UNCHANGED <<str_hash, tx_map, heap, ctx_map, ctx_id, watch, pool, rcall>>

\* The context is created by the host before the threads run their calls.
create_context_for_threads ==
    /\ Running
    /\ ~ctx_map
    /\ ctx_map' = TRUE
    /\ ctx_id' = 1
    /\ UNCHANGED <<str_hash, tx_map, heap, ret, watch, pool, rcall, threads>>

NextThreads ==
    \/ create_context_for_threads
    \/ \E t \in Threads, str \in Ids, ranges \in RangeLists :
          call_set_ranges(t, str, ranges)
    \/ \E t \in Threads : set_ranges_find(t)
    \/ \E t \in Threads : set_ranges_allocate(t)
    \/ \E t \in Threads : set_ranges_incref(t)
    \/ \E t \in Threads : set_ranges_decref(t)
    \/ \E t \in Threads : set_ranges_replace(t)
    \/ \E t \in Threads : set_ranges_insert(t)
    \/ \E t \in Threads, str \in Ids : call_get_ranges(t, str)
    \/ \E t \in Threads : get_ranges_compare(t)
    \/ \E t \in Threads : get_ranges_read(t)

\* ------------------------------------------------------------- the host
\* The host hashes a string (dict key, set member): the hash is cached in
\* the string. The content of a string shows only in its hash, so the hash
\* value is chosen when it is first computed.
PyObject_Hash(str) ==
    /\ Running
    /\ str_hash[str] = NotComputed
    /\ \E h \in HashVals : str_hash' = [str_hash EXCEPT ![str] = h]
    \* a set_ranges that stored stays observed across the hashing
    /\ ret' = IF ret.op = "set_ranges" /\ ret.new # NullPtr
              THEN [ret EXCEPT !.then = "hashed"] ELSE NoCall
    /\ UNCHANGED <<tx_map, heap, ctx_map, ctx_id, watch, pool, rcall, threads>>

\* The string at address a is released and the address is given to a new
\* string, hashed or not yet.
reuse_identity(a) ==
    /\ Running
    /\ \E h \in {NotComputed} \cup HashVals :
          str_hash' = [str_hash EXCEPT ![a] = h]
    /\ ret' = NoCall
    /\ UNCHANGED <<tx_map, heap, ctx_map, ctx_id, watch, pool, rcall, threads>>

\* The host builds a TaintedObject of its own to hand to set_tainted_object.
allocate_tainted_object(ranges) ==
    /\ Running
    /\ ranges # <<>>
    /\ \E new \in FreeObjs :
          heap' = allocate_ranges_into_taint_object(heap, new, ranges)
    /\ ret' = NoCall
    /\ UNCHANGED <<str_hash, tx_map, ctx_map, ctx_id, watch, pool, rcall, threads>>

create_context ==
    /\ Running
    /\ ~ctx_map
    /\ ctx_map' = TRUE
    /\ ctx_id' = 1
    /\ ret' = NoCall
    /\ UNCHANGED <<str_hash, tx_map, heap, watch, pool, rcall, threads>>

reset_context ==
    /\ Running
    /\ ctx_map
    /\ ctx_map' = FALSE
    /\ ctx_id' = NoContext
    /\ ret' = NoCall
    /\ UNCHANGED <<str_hash, tx_map, heap, watch, pool, rcall, threads>>

InitState ==
    /\ str_hash = [a \in Ids |-> NotComputed]
    /\ tx_map = [k \in Keys |-> NoEntry]
    /\ heap = [o \in Objs |-> Dead]
    /\ ctx_map = FALSE
    /\ ctx_id = NoContext
    /\ ret = NoCall
    /\ pool = [p \in RangePtrs |-> FreeRange]
    /\ rcall = NoRangeCall
    /\ threads = [t \in Threads |-> Idle]

\* The calls that can change the program's state, the lookups and the host.
Next ==
    \/ \E str \in Args, explicit \in Explicits : get_ranges(str, explicit)
    \/ \E str \in Args, ranges \in RangeLists, explicit \in Explicits :
          set_ranges(str, ranges, explicit)
    \/ \E str \in Args \cup {NullPtr}, explicit \in Explicits :
          get_tainted_object(str, explicit)
    \/ \E str \in Args \cup {NullPtr}, t \in Objs, explicit \in Explicits :
          set_tainted_object(str, t, explicit)
    \/ \E str \in Ids : PyObject_Hash(str)
    \/ \E a \in Ids : reuse_identity(a)
    \/ \E ranges \in RangeLists : allocate_tainted_object(ranges)
    \/ create_context
    \/ reset_context

\* are_all_text_all_ranges reads the state and changes nothing of it. It is
\* run against the states that set_ranges, the stale-entry decref of
\* get_tainted_object and the host produce: entries that are valid, stale or
\* dangling, with and without a context.
NextAlgebra ==
    \/ \E c \in Args, ps \in ParamLists : are_all_text_all_ranges(c, ps)
    \/ \E str \in Args, ranges \in RangeLists, explicit \in Explicits :
          set_ranges(str, ranges, explicit)
    \/ \E str \in Args \cup {NullPtr}, explicit \in Explicits :
          get_tainted_object(str, explicit)
    \/ \E str \in Ids : PyObject_Hash(str)
    \/ \E a \in Ids : reuse_identity(a)
    \/ create_context
    \/ reset_context

\* The program, observing the range-level calls.
Init == InitState /\ watch = {"get_ranges", "set_ranges"}
Spec == Init /\ [][Next]_vars

\* The program, observing the TaintedObject-level calls.
InitObjects == InitState /\ watch = {"get_tainted_object", "set_tainted_object"}
SpecObjects == InitObjects /\ [][Next]_vars

\* The program, observing are_all_text_all_ranges.
InitAlgebra == InitState /\ watch = {"are_all_text_all_ranges"}
SpecAlgebra == InitAlgebra /\ [][NextAlgebra]_vars

\* The range layer alone: the host builds ranges and calls the shifts, the
\* comparisons, get_hash and get_range_by_hash on them.
InitRanges == InitState /\ watch = {}
SpecRanges == InitRanges /\ [][NextRanges]_vars

\* Threads sharing the context's map, a step of a call at a time.
InitThreads == InitState /\ watch = {}
SpecThreads == InitThreads /\ [][NextThreads]_vars

TypeOK ==
    /\ str_hash \in [Ids -> {NotComputed} \cup HashVals]
    /\ \A k \in Keys : tx_map[k] = NoEntry
          \/ (tx_map[k].first \in {NotComputed} \cup HashVals /\ tx_map[k].second \in Objs)
    /\ \A o \in Objs : heap[o].rc \in 0..MaxRc /\ heap[o].ranges \in RangeLists
    /\ tx_map[NonText] = NoEntry

\* ------------------------------------------------------------ the claims
\* The ranges get_ranges returns for str in the current state, through the
\* context's map or an explicit one.
ranges_of(str) == get_ranges_result(str, TRUE).val

\* The number of map entries that point to TaintedObject o.
entries_to(o) == Cardinality({k \in Keys : tx_map[k].second = o})

\* C1: after a set_ranges(v, R) that stored R, with only hash computations of
\* the host in between (no reuse of v's identity, no change of context), a
\* get_ranges(v) with a resolvable map returns exactly R.
C1_RoundTrip ==
    [][(/\ ret.op = "set_ranges" /\ ret.new # NullPtr
        /\ ret'.op = "get_ranges" /\ ret'.str = ret.str
        /\ resolved(ret'.explicit))
       => (ret'.out = "return" /\ ret'.val = ret.ranges)]_vars

\* C2: a set_ranges(v, B) that follows a set_ranges(v, A) on the same map
\* leaves the object that held A destroyed (reference count zero), the map
\* entry of v's identity pointing at the live object holding B, and
\* get_ranges(v) = B.
C2_RetaintReleases ==
    [][(/\ ret.op = "set_ranges" /\ ret.new # NullPtr
        /\ ret'.op = "set_ranges" /\ ret'.new # NullPtr
        /\ ret'.then = "returned" /\ ret'.str = ret.str /\ ret' # ret)
       => (/\ ret'.new # ret.new
           /\ ~heap'[ret.new].alive /\ heap'[ret.new].rc = 0
           /\ tx_map'[get_unique_id(ret'.str)].second = ret'.new
           /\ heap'[ret'.new].alive
           /\ heap'[ret'.new].ranges = ret'.ranges
           /\ \A v \in Args : v = ret.str => ranges_of(v)' = ret'.ranges)]_vars

\* C3: in every state the reference count of each TaintedObject equals the
\* number of map entries that point to it.
C3_RefcountConservation ==
    Running => \A o \in Objs : heap[o].rc = entries_to(o)

\* C4: a get_ranges(v) that finds an entry for v's identity whose cached
\* hash differs from v's current hash returns the empty sequence and leaves
\* the map and every TaintedObject (reference counts included) as they were.
C4_StaleIsAbsent ==
    [][(/\ ret'.op = "get_ranges" /\ ret'.str \in Ids
        /\ found(get_unique_id(ret'.str))
        /\ tx_map[get_unique_id(ret'.str)].first # str_hash[ret'.str])
       => (/\ ret'.out = "return" /\ ret'.val = <<>>
           /\ UNCHANGED <<tx_map, heap>>)]_vars

\* C4 happens: get_ranges has just returned empty for a string whose entry,
\* in a non-empty resolvable map, points at a live object with ranges and
\* caches another hash than the string's.
C4_Witness ==
    /\ ret.op = "get_ranges" /\ ret.str \in Ids /\ resolved(ret.explicit)
    /\ found(ret.str)
    /\ tx_map[ret.str].first # str_hash[ret.str]
    /\ heap[tx_map[ret.str].second].alive
    /\ heap[tx_map[ret.str].second].ranges # <<>>
    /\ ret.val = <<>>

\* C5: right after set_tainted_object(v, t) has stored t, the map has an
\* entry under v's identity and get_tainted_object(v) finds t there (the
\* entry points at t and caches v's current hash).
C5_ObjectRoundTrip ==
    (ret.op = "set_tainted_object" /\ ret.new # NullPtr)
    => (/\ found(get_unique_id(ret.str))
        /\ tx_map[get_unique_id(ret.str)].second = ret.tobj
        /\ tx_map[get_unique_id(ret.str)].first = str_hash[ret.str])

\* C6: a get_tainted_object(v) on a resolvable map whose entry for v's
\* identity caches another hash than v's current one returns "not found"
\* without raising and leaves the map and every reference count unchanged.
C6_LookupLeavesState ==
    [][(/\ ret'.op = "get_tainted_object" /\ ret'.str \in Ids
        /\ resolved(ret'.explicit)
        /\ found(get_unique_id(ret'.str))
        /\ tx_map[get_unique_id(ret'.str)].first # str_hash[ret'.str])
       => (/\ ret'.out = "return" /\ ret'.obj = NullPtr
           /\ UNCHANGED <<tx_map, heap>>)]_vars

\* C7: set_ranges on a text-like value with non-empty ranges, no explicit
\* map and no context map raises the initialization error; nothing is
\* allocated, no reference count changes, the map is not modified.
C7_UninitializedError ==
    [][(/\ ret'.op = "set_ranges" /\ ret'.then = "returned"
        /\ is_text(ret'.str) /\ ret'.ranges # <<>>
        /\ ~ret'.explicit /\ ~get_tainting_map)
       => (/\ ret'.out = "error" /\ ret'.new = NullPtr
           /\ UNCHANGED <<tx_map, heap>>)]_vars

\* C7 happens: the error was raised while the map held entries.
C7_Witness ==
    /\ ret.op = "set_ranges" /\ ret.out = "error"
    /\ is_text(ret.str) /\ ret.ranges # <<>>
    /\ ~ret.explicit /\ ~get_tainting_map
    /\ ~empty

\* C8 as stated: whenever the value is not text-like, or ranges is empty, or
\* the context id is 0, set_ranges returns silently and changes nothing.
C8_NoOpAsStated ==
    [][(/\ ret'.op = "set_ranges" /\ ret'.then = "returned"
        /\ (~is_text(ret'.str) \/ ret'.ranges = <<>> \/ context_id = NoContext))
       => (/\ ret'.out = "return" /\ ret'.new = NullPtr
           /\ UNCHANGED <<tx_map, heap>>)]_vars

\* C8 amended: whenever the value is not text-like, or ranges is empty, or
\* the context id is 0 while a map is available (an explicit map or the
\* context's), set_ranges returns silently and changes nothing.
C8_NoOp ==
    [][(/\ ret'.op = "set_ranges" /\ ret'.then = "returned"
        /\ \/ ~is_text(ret'.str)
           \/ ret'.ranges = <<>>
           \/ context_id = NoContext /\ resolved(ret'.explicit))
       => (/\ ret'.out = "return" /\ ret'.new = NullPtr
           /\ UNCHANGED <<tx_map, heap>>)]_vars

\* C8 happens: a text-like value, non-empty ranges and an explicit map with
\* entries, context id 0: the call returned and stored nothing.
C8_Witness ==
    /\ ret.op = "set_ranges" /\ ret.out = "return" /\ ret.new = NullPtr
    /\ is_text(ret.str) /\ ret.ranges # <<>>
    /\ context_id = NoContext /\ ret.explicit
    /\ ~empty

\* C9 as stated: the initialization error comes only from set_ranges and
\* set_tainted_object; the lookups never raise.
C9_OnlyMutatorsRaiseAsStated ==
    ret.out = "error" => ret.op \in {"set_ranges", "set_tainted_object"}

\* C9 amended: the initialization error is raised only with no explicit map
\* and no context map, and only by set_ranges, set_tainted_object and
\* get_tainted_object; get_ranges never raises and returns empty then.
C9_WhoRaises ==
    [][/\ ret'.out = "error"
          => (/\ ret'.op \in {"set_ranges", "set_tainted_object",
                              "get_tainted_object"}
              /\ ~ret'.explicit /\ ~get_tainting_map)
       /\ (ret'.op = "get_ranges" /\ ~resolved(ret'.explicit))
          => (ret'.out = "return" /\ ret'.val = <<>>)]_vars

\* C9 happens: get_ranges returned empty, without raising, for a tainted
\* string (a live entry that caches its hash) when no map was resolvable.
C9_Witness ==
    /\ ret.op = "get_ranges" /\ ret.str \in Ids
    /\ ~resolved(ret.explicit)
    /\ found(ret.str) /\ tx_map[ret.str].first = str_hash[ret.str]
    /\ heap[tx_map[ret.str].second].alive
    /\ ret.out = "return" /\ ret.val = <<>>

\* The concatenation, in operand order, of the ranges of the text-like
\* operands.
RECURSIVE operand_ranges(_)
operand_ranges(operands) ==
    IF operands = <<>> THEN <<>>
    ELSE (IF is_text(Head(operands))
          THEN get_ranges_result(Head(operands), FALSE).val ELSE <<>>)
         \o operand_ranges(Tail(operands))

\* C10: are_all_text_all_ranges(candidate, operands) returns
\* candidate_ranges = get_ranges(candidate) and all_ranges = the ranges of
\* the text-like operands in operand order, then candidate_ranges; both are
\* empty when the candidate is not text-like; the map and the reference
\* counts are unchanged.
C10_AllRanges ==
    [][ret'.op = "are_all_text_all_ranges"
       => (/\ ret'.out = "return"
           /\ IF is_text(ret'.str)
              THEN /\ ret'.val = get_ranges_result(ret'.str, FALSE).val
                   /\ ret'.all = operand_ranges(ret'.params) \o ret'.val
              ELSE ret'.val = <<>> /\ ret'.all = <<>>
           /\ UNCHANGED <<tx_map, heap>>)]_vars

\* C10 happens: a call with a non-text operand and a text-like operand whose
\* ranges differ from the candidate's, both non-empty.
C10_Witness ==
    /\ ret.op = "are_all_text_all_ranges" /\ is_text(ret.str)
    /\ ret.val # <<>>
    /\ \E i, j \in DOMAIN ret.params :
          /\ ret.params[i] = NonText
          /\ is_text(ret.params[j])
          /\ ranges_of(ret.params[j]) # <<>>
          /\ ranges_of(ret.params[j]) # ret.val
    /\ Len(ret.all) > Len(ret.val)

\* C11: get_range_by_hash(h, ranges) returns the first range of the sequence
\* whose get_hash() equals h, and nullptr when no range has that hash, when
\* the collection is empty and when it is absent.
C11_FirstWithHash ==
    rcall.op = "get_range_by_hash"
    => LET rs == rcall.ranges
           hits == {i \in DOMAIN rs : get_hash(pool[rs[i]]) = rcall.hash}
       IN IF rcall.has /\ hits # {}
          THEN \E i \in hits : /\ rcall.out = rs[i]
                               /\ \A j \in hits : i <= j
          ELSE rcall.out = NullPtr

\* C11 happens: two different ranges of the collection have the hash asked
\* for and the one that comes first was returned.
C11_Witness ==
    /\ rcall.op = "get_range_by_hash" /\ rcall.has
    /\ Len(rcall.ranges) = 2
    /\ rcall.ranges[1] # rcall.ranges[2]
    /\ pool[rcall.ranges[1]] # pool[rcall.ranges[2]]
    /\ get_hash(pool[rcall.ranges[1]]) = rcall.hash
    /\ get_hash(pool[rcall.ranges[2]]) = rcall.hash
    /\ rcall.out = rcall.ranges[1]

C13_ShiftAll ==
    [][(rcall.made = {} /\ rcall'.op = "shift_taint_ranges")
       => LET rs == rcall'.ranges
              outs == rcall'.outs
          IN /\ Len(outs) = Len(rs)
             /\ \A i \in DOMAIN outs :
                   /\ ~pool[outs[i]].live /\ pool'[outs[i]].live
                   /\ pool'[outs[i]].start \in Starts
                   /\ (pool'[outs[i]].start - pool[rs[i]].start - rcall'.offset)
                         % (2^StartBits) = 0
                   /\ pool'[outs[i]].length = pool[rs[i]].length
                   /\ pool'[outs[i]].source = pool[rs[i]].source
                   /\ \A j \in DOMAIN outs : outs[j] = outs[i] => j = i
             /\ \A p \in RangePtrs : pool[p].live => pool'[p] = pool[p]]_vars

\* C13 happens: two ranges that differ in start, length and source were
\* shifted by an offset other than 0.
C13_Witness ==
    /\ rcall.op = "shift_taint_ranges" /\ rcall.offset # 0
    /\ Len(rcall.ranges) = 2 /\ Len(rcall.outs) = 2
    /\ pool[rcall.ranges[1]].start # pool[rcall.ranges[2]].start
    /\ pool[rcall.ranges[1]].length # pool[rcall.ranges[2]].length
    /\ pool[rcall.ranges[1]].source # pool[rcall.ranges[2]].source
    /\ pool[rcall.outs[1]].length = pool[rcall.ranges[1]].length
    /\ pool[rcall.outs[2]].source = pool[rcall.ranges[2]].source

\* C14: two ranges with the same (start, length) compare equal whatever
\* their sources, r != s is the negation of r == s, and two ranges that
\* compare equal have the same get_hash().
C14_EqHashExcludeSource ==
    LET r == rcall.range
        s == rcall.other
    IN /\ (/\ rcall.op = "__eq__" /\ s # NullPtr
           /\ pool[r].start = pool[s].start
           /\ pool[r].length = pool[s].length) => rcall.is
       /\ rcall.op = "__ne__" => rcall.is = ~TaintRange_eq(r, s)
       /\ (rcall.op = "__eq__" /\ rcall.is)
             => get_hash(pool[r]) = get_hash(pool[s])

\* C18: every range that shift_taint_range or shift_taint_ranges makes of a
\* range with start >= 0 and length >= 0 has start >= 0 and length >= 0
\* again, whatever the offset.
C18_ShiftKeepsFields ==
    [][(rcall.made = {} /\ rcall'.op \in {"shift_taint_range",
                                          "shift_taint_ranges"})
       => /\ (rcall'.op = "shift_taint_range"
              /\ pool[rcall'.range].start >= 0
              /\ pool[rcall'.range].length >= 0)
                => (pool'[rcall'.out].start >= 0
                    /\ pool'[rcall'.out].length >= 0)
          /\ \A i \in DOMAIN rcall'.outs :
                (pool[rcall'.ranges[i]].start >= 0
                 /\ pool[rcall'.ranges[i]].length >= 0)
                   => (pool'[rcall'.outs[i]].start >= 0
                       /\ pool'[rcall'.outs[i]].length >= 0)]_vars

\* C15: right after set_tainted_object(v, t) has stored t, v's hash is
\* computed (no longer -1) and the map entry of v's identity caches v's
\* current hash, for a fresh entry as for a replaced one.
C15_EntryValidAfterSet ==
    (ret.op = "set_tainted_object" /\ ret.new # NullPtr)
    => (/\ str_hash[ret.str] # NotComputed
        /\ found(get_unique_id(ret.str))
        /\ tx_map[get_unique_id(ret.str)].first = str_hash[ret.str])

\* C16: in every state every TaintedObject a map entry points to is alive:
\* it has a reference count of at least 1 and was not destroyed.
C16_NoDanglingEntry ==
    Running => \A k \in Keys :
                  found(k) => (/\ heap[tx_map[k].second].alive
                               /\ heap[tx_map[k].second].rc >= 1)

\* What the lookups give for w in the current state: the result of
\* get_ranges(w) and the possible results of get_tainted_object(w).
lookups_of(w) ==
    [ranges |-> get_ranges_result(w, TRUE),
     object |-> IF get_tainted_object_path(w, TRUE) = "lookup"
                THEN {[crash |-> g.crash, obj |-> g.obj] :
                         g \in get_tainted_object_lookup(w)}
                ELSE {}]

\* C17: a set_ranges or set_tainted_object call on v creates or changes no
\* map entry but the one keyed by v's identity, and for every value w of
\* another identity get_ranges(w) and get_tainted_object(w) give the same
\* before and after the call.
C17_NoCrossValueEffect ==
    [][\A v \in Args, explicit \in BOOLEAN :
          (/\ \/ \E ranges \in RangeLists : set_ranges(v, ranges, explicit)
              \/ \E t \in Objs : set_tainted_object(v, t, explicit)
           /\ ret'.out # "crash")
          => (/\ \A k \in Keys \ {get_unique_id(v)} : tx_map'[k] = tx_map[k]
              /\ \A w \in Args \ {v} : lookups_of(w)' = lookups_of(w))]_vars

\* The objects a thread has decremented and whose entry it has not yet
\* replaced.
decremented_by(t) ==
    IF threads[t].pc = "set_ranges_replace" THEN {threads[t].old} ELSE {}

\* C19: with two threads interleaving get_ranges / set_ranges on one map a
\* step at a time, no step reads or decrements a TaintedObject that was
\* destroyed, and the object an entry replace overwrites was decremented
\* once: by the replacing thread and by no other.
C19_NoUseAfterFree ==
    [][\A t \in Threads :
          /\ (threads[t].pc \in {"set_ranges_decref", "get_ranges_read"}
              /\ threads'[t] # threads[t])
                => heap[entry_of(t).second].alive
          /\ (threads[t].pc = "set_ranges_replace" /\ threads'[t] # threads[t])
                => (/\ entry_of(t).second = threads[t].old
                    /\ \A u \in Threads \ {t} :
                          threads[t].old \notin decremented_by(u))]_vars

====
